---- MODULE Spec2Model ----
(***************************************************************************)
(* Model of the streaming conversation endpoint of the digital human app   *)
(* (app/backend/api/conversation.py, stream_conversation) and of the       *)
(* VADSegmenter it drives (app/backend/services/vad_service.py).           *)
(*                                                                         *)
(* Bytes are small naturals, a frame is a sequence of bytes, and an        *)
(* Optional value is a sequence of length 0 (None) or 1.                   *)
(***************************************************************************)
EXTENDS Naturals, Integers, Sequences, FiniteSets, TLC

VARIABLES
    vad_segmenter,  \* the VADSegmenter object (configuration and state)
    calls,          \* SegSpec: log of the calls made on the segmenter
    plan,           \* which driver runs: "free", "lead", "gate", "session", "pair"
    pc,             \* where stream_conversation is suspended
    ws,             \* the websocket: "open" or "broken" (peer gone)
    inbox,          \* inbound messages sent by the peer, not yet received
    metadata,       \* storage: the session's stored metadata, None if absent
    llm_streams,    \* hasattr(llm_service, 'generate_conversation_stream')
    conversation_history,
    is_processing_response,
    speech_segment, \* argument of the running process_speech_segment
    transcript,     \* local of process_speech_segment
    full_response,  \* local of process_speech_segment
    sent,           \* events delivered while handling the current message
    failure,        \* what failed while handling the current message
    failed_sends,   \* events whose send raised, for the current message
    frames_left,    \* audio messages the peer may still send
    actions_left,   \* other messages the peer may still send
    session_id,     \* the path parameter of the running stream_conversation
    services,       \* the module's service singletons: "none" or "ready"
    other           \* PairSpec: the second session, while the first runs

segVars == <<vad_segmenter, calls, plan>>
sessionVars ==
    <<pc, ws, inbox, metadata, llm_streams, conversation_history,
      is_processing_response, speech_segment, transcript, full_response,
      sent, failure, failed_sends, frames_left, actions_left,
      session_id, services, other>>
vars == <<vad_segmenter, calls, plan, pc, ws, inbox, metadata, llm_streams,
          conversation_history, is_processing_response, speech_segment,
          transcript, full_response, sent, failure, failed_sends,
          frames_left, actions_left, session_id, services, other>>

(***************************************************************************)
(* Bounds                                                                  *)
(***************************************************************************)
\* number of calls the driver makes under the plan "free"
MaxCalls == 6
\* longest run of leading speech frames under the plan "lead"
MaxLead == 11
\* number of calls the driver makes under the plan "lead"
MaxRun == 22
\* audio messages the peer sends in one session
MaxFrames == 22
\* audio messages the peer sends in one session of FairSpec
FairFrames == 12
\* other messages (reset, ping, unknown, undecodable audio) the peer sends
MaxActions == 1
\* inbound messages waiting in the transport
MaxInbox == 1
\* chunks a streaming generator yields
MaxChunks == 2
\* words of a transcript given to the turn-taking gate
MaxWords == 5
\* calls of the gate on one transcript
MaxGateCalls == 2
\* audio messages the peer of the first session of PairSpec sends
PairFrames == 11
\* other messages the peer of the second session of PairSpec sends
PairActions == 1

(***************************************************************************)
(* Program constants                                                       *)
(***************************************************************************)
\* arguments of VADSegmenter(...) in stream_conversation
StreamFrameDurationMs == 30
StreamPaddingDurationMs == 300
StreamMinSpeechDurationMs == 250

None == <<>>
Some(x) == <<x>>

(***************************************************************************)
(* VADSegmenter                                                            *)
(***************************************************************************)
\* VADSegmenter.__init__: configuration, derived padding_frames, empty state
VADSegmenter(frame_duration_ms, padding_duration_ms, min_speech_duration_ms) ==
    [ frame_duration_ms      |-> frame_duration_ms,
      padding_duration_ms    |-> padding_duration_ms,
      min_speech_duration_ms |-> min_speech_duration_ms,
      is_speaking            |-> FALSE,
      speech_frames          |-> <<>>,
      silence_frames         |-> 0,
      padding_frames         |-> padding_duration_ms \div frame_duration_ms,
      vad                    |-> "unloaded" ]

\* b''.join(self.speech_frames)
RECURSIVE join(_)
join(frames) ==
    IF frames = <<>> THEN <<>> ELSE Head(frames) \o join(Tail(frames))

\* self.vad.is_speech(frame, ...) returned: the classifier's model is
\* loaded and its internal state has seen a frame
vad_is_speech(seg) == [seg EXCEPT !.vad = "used"]

\* SileroVAD._load_model can raise only while self._model is None
can_fail_to_load(seg) == seg.vad = "unloaded"

\* SileroVAD.reset: reset_states() of the model when there is one
vad_reset(vad) == IF vad = "unloaded" THEN "unloaded" ELSE "fresh"

\* self.silence_frames += 1; self.speech_frames.append(frame)
buffer_silence_dropping(seg, frame) ==
    [seg EXCEPT !.silence_frames = @ + 1]
buffer_silence(seg, frame) ==
    [seg EXCEPT !.silence_frames = @ + 1,
                !.speech_frames = Append(@, frame)]

\* if self.silence_frames >= self.padding_frames  (after the increment)
segment_ended_strict(seg) == seg.silence_frames > seg.padding_frames
segment_ended(seg) == seg.silence_frames >= seg.padding_frames

\* speech_duration_ms = len(self.speech_frames) * self.frame_duration_ms
speech_duration_speech_only(seg) ==
    (Len(seg.speech_frames) - seg.silence_frames) * seg.frame_duration_ms
speech_duration_ms(seg) == Len(seg.speech_frames) * seg.frame_duration_ms

\* if speech_duration_ms >= self.min_speech_duration_ms
long_enough_vs_padding(seg) == speech_duration_ms(seg) >= seg.padding_duration_ms
long_enough(seg) == speech_duration_ms(seg) >= seg.min_speech_duration_ms

\* "Reset state" of both finalising branches
cleared_keeping_counter(seg) ==
    [seg EXCEPT !.speech_frames = <<>>, !.is_speaking = FALSE]
cleared(seg) ==
    [seg EXCEPT !.speech_frames = <<>>, !.silence_frames = 0,
                !.is_speaking = FALSE]

\* the final "return self.is_speaking, None"
still_speaking_this_frame(seg) == seg.is_speaking /\ seg.silence_frames = 0
still_speaking(seg) == seg.is_speaking

\* VADSegmenter.process_frame; is_speech is what self.vad.is_speech returned.
\* The result is the segmenter after the call and the returned pair.
process_frame(seg0, frame, is_speech) ==
    LET seg == vad_is_speech(seg0) IN
    IF is_speech
    THEN LET s1 == [seg EXCEPT !.speech_frames = Append(@, frame),
                               !.silence_frames = 0,
                               !.is_speaking = TRUE]
         IN  [seg |-> s1, is_speaking |-> still_speaking(s1),
              speech_segment |-> None]
    ELSE IF seg.is_speaking
         THEN LET s1 == buffer_silence(seg, frame)
              IN  IF segment_ended(s1)
                  THEN IF long_enough(s1)
                       THEN [seg |-> cleared(s1), is_speaking |-> FALSE,
                             speech_segment |-> Some(join(s1.speech_frames))]
                       ELSE [seg |-> cleared(s1),
                             is_speaking |-> still_speaking(cleared(s1)),
                             speech_segment |-> None]
                  ELSE [seg |-> s1, is_speaking |-> still_speaking(s1),
                        speech_segment |-> None]
         ELSE [seg |-> seg, is_speaking |-> still_speaking(seg),
               speech_segment |-> None]

\* a reset that forgets the buffered frames
reset_keeping_frames(seg) ==
    [seg EXCEPT !.is_speaking = FALSE, !.silence_frames = 0,
                !.vad = vad_reset(@)]

\* VADSegmenter.reset
reset(seg) ==
    [seg EXCEPT !.is_speaking = FALSE, !.speech_frames = <<>>,
                !.silence_frames = 0, !.vad = vad_reset(@)]

(***************************************************************************)
(* Text: a string is a sequence of one-character strings                   *)
(***************************************************************************)
IsSpace(c) == c \in {" ", "\t", "\n", "\r"}

\* str.strip()
RECURSIVE lstrip(_)
lstrip(t) == IF t # <<>> /\ IsSpace(Head(t)) THEN lstrip(Tail(t)) ELSE t
RECURSIVE rstrip(_)
rstrip(t) ==
    IF t # <<>> /\ IsSpace(t[Len(t)]) THEN rstrip(SubSeq(t, 1, Len(t) - 1))
    ELSE t
strip(t) == rstrip(lstrip(t))

\* str.split(): the maximal runs of non-space characters, in order
RECURSIVE split_from(_, _, _)
split_from(t, word, words) ==
    IF t = <<>>
    THEN IF word = <<>> THEN words ELSE Append(words, word)
    ELSE IF IsSpace(Head(t))
         THEN split_from(Tail(t), <<>>,
                         IF word = <<>> THEN words ELSE Append(words, word))
         ELSE split_from(Tail(t), Append(word, Head(t)), words)
split(t) == split_from(t, <<>>, <<>>)

\* str.lower()
UpperCase == <<"A", "B", "C", "D", "E", "F", "G", "H", "I", "J", "K", "L", "M", "N", "O", "P", "Q", "R", "S", "T", "U", "V", "W", "X", "Y", "Z">>
LowerCase == <<"a", "b", "c", "d", "e", "f", "g", "h", "i", "j", "k", "l", "m", "n", "o", "p", "q", "r", "s", "t", "u", "v", "w", "x", "y", "z">>
lower_char(c) ==
    IF \E i \in 1..Len(UpperCase) : UpperCase[i] = c
    THEN LowerCase[CHOOSE i \in 1..Len(UpperCase) : UpperCase[i] = c]
    ELSE c
lower(t) == [i \in 1..Len(t) |-> lower_char(t[i])]

\* needle in hay
contains(hay, needle) ==
    \E i \in 0..(Len(hay) - Len(needle)) :
        SubSeq(hay, i + 1, i + Len(needle)) = needle

\* str.endswith
endswith(t, c) == t # <<>> /\ t[Len(t)] = c

starters ==
    { <<"h", "e", "l", "l", "o">>,
      <<"h", "i">>,
      <<"h", "e", "y">>,
      <<"g", "o", "o", "d", " ", "m", "o", "r", "n", "i", "n", "g">>,
      <<"g", "o", "o", "d", " ", "a", "f", "t", "e", "r", "n", "o", "o", "n">>,
      <<"g", "o", "o", "d", " ", "e", "v", "e", "n", "i", "n", "g">> }
prompts ==
    { <<"w", "h", "a", "t", " ", "d", "o", " ", "y", "o", "u", " ", "t", "h", "i", "n", "k">>,
      <<"c", "a", "n", " ", "y", "o", "u">>,
      <<"c", "o", "u", "l", "d", " ", "y", "o", "u">>,
      <<"w", "o", "u", "l", "d", " ", "y", "o", "u">>,
      <<"t", "e", "l", "l", " ", "m", "e">>,
      <<"h", "e", "l", "p", " ", "m", "e">> }

\* should_llm_respond(transcript, conversation_history)
\* the gate with the length rule read as "more than 5 words"
should_llm_respond_gt5(text, history) ==
    LET stripped   == strip(text)
        words == split(stripped)
    IN  IF Len(words) < 3 THEN FALSE
        ELSE IF endswith(stripped, "?") THEN TRUE
        ELSE IF \E starter \in starters : contains(lower(stripped), starter)
             THEN TRUE
        ELSE IF \E prompt \in prompts : contains(lower(stripped), prompt)
             THEN TRUE
        ELSE IF Len(words) > 5 THEN TRUE
        ELSE FALSE

should_llm_respond(text, history) ==
    LET stripped   == strip(text)
        words == split(stripped)
    IN  IF Len(words) < 3 THEN FALSE
        ELSE IF endswith(stripped, "?") THEN TRUE
        ELSE IF \E starter \in starters : contains(lower(stripped), starter)
             THEN TRUE
        ELSE IF \E prompt \in prompts : contains(lower(stripped), prompt)
             THEN TRUE
        ELSE IF Len(words) >= 5 THEN TRUE
        ELSE FALSE

(***************************************************************************)
(* SegSpec: a driver that calls the segmenter directly                     *)
(***************************************************************************)
\* the session variables of a run that has no session
SessionIdle ==
    /\ pc = "closed"
    /\ ws = "broken"
    /\ session_id = "s1"
    /\ services = "none"
    /\ other = None
    /\ inbox = <<>>
    /\ metadata = None
    /\ llm_streams = FALSE
    /\ conversation_history = <<>>
    /\ is_processing_response = FALSE
    /\ speech_segment = <<>>
    /\ transcript = <<>>
    /\ full_response = <<>>
    /\ sent = <<>>
    /\ failure = "none"
    /\ failed_sends = <<>>
    /\ frames_left = 0
    /\ actions_left = 0

StreamConfig ==
    <<StreamFrameDurationMs, StreamPaddingDurationMs, StreamMinSpeechDurationMs>>

\* configurations of the plan "free": <<frame, padding, min speech>> in ms
FreeConfigs ==
    { <<30, 60, 90>>, <<30, 60, 120>>, <<30, 60, 250>>, <<30, 30, 90>>,
      <<30, 20, 60>>, <<20, 50, 60>>, <<20, 50, 100>> }

\* the frames the driver can pass as its i-th call
FreeFrames(i) == { <<i>>, <<i, i>> }
LeadFrame(i) == IF i % 2 = 1 THEN <<i>> ELSE <<i, i>>

CallRec(op, frame, is_speech, was_speaking, r) ==
    [ op |-> op, frame |-> frame, is_speech |-> is_speech,
      was_speaking |-> was_speaking,
      is_speaking |-> r.is_speaking, speech_segment |-> r.speech_segment,
      buffered |-> Len(r.seg.speech_frames) ]

SegInit ==
    /\ plan \in {"free", "lead"}
    /\ \E c \in (IF plan = "free" THEN FreeConfigs ELSE {StreamConfig}) :
           vad_segmenter = VADSegmenter(c[1], c[2], c[3])
    /\ calls = <<>>
    /\ SessionIdle

\* one call of process_frame with a frame and a classifier verdict
SegProcessFrame ==
    LET i == Len(calls) + 1 IN
    /\ i <= (IF plan = "free" THEN MaxCalls ELSE MaxRun)
    /\ \E is_speech \in BOOLEAN :
       \E frame \in (IF plan = "free" THEN FreeFrames(i) ELSE {LeadFrame(i)}) :
          /\ plan = "lead" /\ is_speech =>
                 /\ i <= MaxLead
                 /\ \A k \in 1..(i - 1) : calls[k].is_speech
          /\ LET r == process_frame(vad_segmenter, frame, is_speech) IN
             /\ vad_segmenter' = r.seg
             /\ calls' = Append(calls,
                    CallRec("process_frame", frame, is_speech,
                            vad_segmenter.is_speaking, r))
    /\ UNCHANGED plan
    /\ UNCHANGED sessionVars

\* one call of reset
SegReset ==
    /\ plan = "free"
    /\ Len(calls) < MaxCalls
    /\ vad_segmenter' = reset(vad_segmenter)
    /\ calls' = Append(calls,
           CallRec("reset", <<>>, FALSE, vad_segmenter.is_speaking,
                   [seg |-> reset(vad_segmenter), is_speaking |-> FALSE,
                    speech_segment |-> None]))
    /\ UNCHANGED plan
    /\ UNCHANGED sessionVars

SegNext == SegProcessFrame \/ SegReset

SegSpec == SegInit /\ [][SegNext]_vars

(***************************************************************************)
(* Spec: one streaming session (stream_conversation) and its peer          *)
(***************************************************************************)
\* StreamMessage(event, session_id, data), one shape for every event type
Event_of_first_session(event, text, is_final, recoverable, note) ==
    [ session_id |-> "s1", event |-> event, text |-> text,
      is_final |-> is_final, recoverable |-> recoverable, note |-> note ]
Event(event, text, is_final, recoverable, note) ==
    [ session_id |-> session_id, event |-> event, text |-> text,
      is_final |-> is_final, recoverable |-> recoverable, note |-> note ]
SpeechStartEvent == Event("speech_start", <<>>, FALSE, FALSE, "")
SpeechEndEvent == Event("speech_end", <<>>, FALSE, FALSE, "")
TranscriptionFinalEvent(text) ==
    Event("transcription_final", text, TRUE, FALSE, "")
ResponseStartEvent == Event("response_start", <<>>, FALSE, FALSE, "")
ResponseTextEvent(text, is_final) ==
    Event("response_text", text, is_final, FALSE, "")
ResponseAudioEvent_as_end == Event("response_end", <<>>, FALSE, FALSE, "")
ResponseAudioEvent == Event("response_audio", <<>>, FALSE, FALSE, "mp3")
ResponseEndEvent == Event("response_end", <<>>, FALSE, FALSE, "")
ResponseErrorEvent_fatal ==
    Event("error", <<>>, FALSE, FALSE, "Response generation failed")
ResponseErrorEvent ==
    Event("error", <<>>, FALSE, TRUE, "Response generation failed")
SegmentErrorEvent_fatal ==
    Event("error", <<>>, FALSE, FALSE, "Speech processing failed")
SegmentErrorEvent ==
    Event("error", <<>>, FALSE, TRUE, "Speech processing failed")
ConnectionErrorEvent == Event("error", <<>>, FALSE, FALSE, "Connection error")
ResetStatusEvent == Event("status", <<>>, FALSE, FALSE, "Conversation reset")
PongStatusEvent_as_reset == ResetStatusEvent
PongStatusEvent == Event("status", <<>>, FALSE, FALSE, "pong")

\* is_processing_response = True, before response_start is sent
flag_at_response_start_unset == FALSE
flag_at_response_start == TRUE

\* finally: is_processing_response = False
flag_after_response_kept == TRUE
flag_after_response == FALSE

\* what stt_service.transcribe can return
Transcripts ==
    { <<>>, <<" ", "o", "k", " ">>, <<"f", "i", "n", "e", " ", "t", "h", "a", "n", "k", "s">>,
      <<"H", "o", "w", " ", "a", "r", "e", " ", "y", "o", "u", "?">> }
\* the text the generator produces: a streaming generator yields it one
\* character per chunk and may end after any of them, a non-streaming one
\* returns one of its non-empty prefixes
GeneratedText == <<"a", "b", "c">>
Chunk(n) == <<GeneratedText[n]>>
Responses == { SubSeq(GeneratedText, 1, n) : n \in 1..MaxChunks }

\* inbound messages
AudioMessage(audio_data) ==
    [has_audio |-> TRUE, audio_data |-> audio_data, action |-> ""]
ActionMessage(action) ==
    [has_audio |-> FALSE, audio_data |-> None, action |-> action]

\* base64.b64decode(audio_base64): the frame, or an exception when the text
\* is not base64 (modelled as an audio_data that holds no frame)
b64decode_ok(audio_data) == audio_data # None
b64decode(audio_data) == audio_data[1]

Turn(role, content) == [role |-> role, content |-> content]

\* storage.update_metadata(session_id, {"conversation": history})
update_metadata(md, history) ==
    IF md = None THEN Some([conversation |-> history])
    ELSE Some([md[1] EXCEPT !.conversation = history])

\* storage.create_session("conversation", {}) followed by
\* storage.get_metadata(session_id): the session created has a new uuid, the
\* lookup under session_id gives what it gave before
get_metadata_after_create(md) == md

driverVars == <<calls, plan, llm_streams, session_id, services, other>>
peerVars == <<ws, inbox, frames_left, actions_left>>

Init ==
    /\ plan = "session"
    /\ calls = <<>>
    /\ session_id = "s1"
    /\ services = "none"
    /\ other = None
    /\ vad_segmenter = VADSegmenter(StreamFrameDurationMs,
                           StreamPaddingDurationMs, StreamMinSpeechDurationMs)
    /\ pc = "accept"
    /\ ws = "open"
    /\ inbox = <<>>
    /\ metadata \in {None, Some([conversation |-> <<>>])}
    /\ llm_streams \in BOOLEAN
    /\ conversation_history = <<>>
    /\ is_processing_response = FALSE
    /\ speech_segment = <<>>
    /\ transcript = <<>>
    /\ full_response = <<>>
    /\ sent = <<>>
    /\ failure = "none"
    /\ failed_sends = <<>>
    /\ frames_left = MaxFrames
    /\ actions_left = MaxActions

(* ------------------------------ the peer ------------------------------ *)
CanSend == ws = "open" /\ pc # "closed" /\ Len(inbox) < MaxInbox

\* the peer sends one audio frame; its byte says whether a response was in
\* flight when it was sent
PeerSendAudio ==
    /\ CanSend
    /\ frames_left > 0
    /\ frames_left' = frames_left - 1
    /\ inbox' = Append(inbox,
           AudioMessage(Some(<<IF is_processing_response THEN 1 ELSE 0>>)))
    /\ UNCHANGED <<ws, actions_left, vad_segmenter, driverVars, pc, metadata,
                   conversation_history, is_processing_response,
                   speech_segment, transcript, full_response, sent, failure,
                   failed_sends>>

\* the peer sends an action, or audio_data that is not base64
PeerSendOther ==
    /\ CanSend
    /\ actions_left > 0
    /\ actions_left' = actions_left - 1
    /\ \E m \in { ActionMessage("reset"), ActionMessage("ping"),
                  ActionMessage("other"), AudioMessage(None) } :
           inbox' = Append(inbox, m)
    /\ UNCHANGED <<ws, frames_left, vad_segmenter, driverVars, pc, metadata,
                   conversation_history, is_processing_response,
                   speech_segment, transcript, full_response, sent, failure,
                   failed_sends>>

\* the peer goes away: later sends raise, receive raises once the inbox is
\* drained
PeerDisconnect ==
    /\ ws = "open"
    /\ pc # "closed"
    /\ ws' = "broken"
    /\ UNCHANGED <<inbox, frames_left, actions_left, vad_segmenter,
                   driverVars, pc, metadata, conversation_history,
                   is_processing_response, speech_segment, transcript,
                   full_response, sent, failure,
                   failed_sends>>

(* ----------------------------- the session ---------------------------- *)
\* bookkeeping when the loop takes the next message
NextMessage == failure' = "none"

\* get_services(): the singletons are created by the first call that
\* succeeds; a call that finds them returns them
get_services_outcomes == IF services = "ready" THEN {TRUE} ELSE BOOLEAN

\* accept, get_services, VADSegmenter(...), history from the stored metadata
Accept ==
    /\ pc = "accept"
    /\ \E services_ok \in get_services_outcomes :
         LET md == IF metadata = None THEN get_metadata_after_create(metadata)
                   ELSE metadata
         IN  /\ services' = IF services_ok THEN "ready" ELSE "none"
             /\ IF services_ok /\ md # None
                THEN /\ conversation_history' = md[1].conversation
                     /\ pc' = "recv"
                     /\ UNCHANGED failure
                ELSE /\ pc' = "closed"
                     /\ failure' = IF services_ok THEN "metadata"
                                   ELSE "services"
                     /\ UNCHANGED conversation_history
    /\ UNCHANGED <<vad_segmenter, calls, plan, llm_streams, session_id,
                   other, peerVars, metadata,
                   is_processing_response, speech_segment, transcript,
                   full_response, sent, failed_sends>>

\* receive_json gives an audio message: decode, process_frame, and signal
\* speech_end (then process_speech_segment) or speech_start
RecvAudio ==
    /\ pc = "recv"
    /\ inbox # <<>>
    /\ Head(inbox).has_audio
    /\ inbox' = Tail(inbox)
    /\ IF ~b64decode_ok(Head(inbox).audio_data)
       THEN /\ failure' = "decode"
            /\ pc' = "loop_except"
            /\ sent' = <<>>
            /\ failed_sends' = <<>>
            /\ UNCHANGED <<vad_segmenter, speech_segment>>
       ELSE \E verdict \in {"speech", "silence"}
                            \cup (IF can_fail_to_load(vad_segmenter)
                                  THEN {"load_failure"} ELSE {}) :
            IF verdict = "load_failure"
            THEN /\ failure' = "classifier"
                 /\ pc' = "loop_except"
                 /\ sent' = <<>>
                 /\ failed_sends' = <<>>
                 /\ UNCHANGED <<vad_segmenter, speech_segment>>
            ELSE LET r == process_frame(vad_segmenter,
                              b64decode(Head(inbox).audio_data),
                              verdict = "speech")
                 IN  /\ vad_segmenter' = r.seg
                     /\ IF r.speech_segment # None
                        THEN IF ws = "open"
                             THEN /\ NextMessage
                                  /\ sent' = <<SpeechEndEvent>>
                                  /\ failed_sends' = <<>>
                                  /\ speech_segment' = r.speech_segment[1]
                                  /\ pc' = "process_speech_segment"
                             ELSE /\ failure' = "send"
                                  /\ sent' = <<>>
                                  /\ failed_sends' = <<SpeechEndEvent>>
                                  /\ pc' = "loop_except"
                                  /\ UNCHANGED speech_segment
                        ELSE IF r.is_speaking
                             THEN IF ws = "open"
                                  THEN /\ NextMessage
                                       /\ sent' = <<SpeechStartEvent>>
                                       /\ failed_sends' = <<>>
                                       /\ pc' = "recv"
                                       /\ UNCHANGED speech_segment
                                  ELSE /\ failure' = "send"
                                       /\ sent' = <<>>
                                       /\ failed_sends' =
                                              <<SpeechStartEvent>>
                                       /\ pc' = "loop_except"
                                       /\ UNCHANGED speech_segment
                             ELSE /\ NextMessage
                                  /\ sent' = <<>>
                                  /\ failed_sends' = <<>>
                                  /\ pc' = "recv"
                                  /\ UNCHANGED speech_segment
    /\ UNCHANGED <<driverVars, ws, frames_left, actions_left, metadata,
                   conversation_history, is_processing_response, transcript,
                   full_response>>

\* receive_json gives {"action": "reset"}
RecvReset ==
    /\ pc = "recv"
    /\ inbox # <<>>
    /\ ~Head(inbox).has_audio
    /\ Head(inbox).action = "reset"
    /\ inbox' = Tail(inbox)
    /\ conversation_history' = <<>>
    /\ vad_segmenter' = reset(vad_segmenter)
    /\ is_processing_response' = FALSE
    /\ \E storage_ok \in BOOLEAN :
         IF storage_ok
         THEN /\ metadata' = update_metadata(metadata, <<>>)
              /\ IF ws = "open"
                 THEN /\ NextMessage
                      /\ sent' = <<ResetStatusEvent>>
                      /\ failed_sends' = <<>>
                      /\ pc' = "recv"
                 ELSE /\ failure' = "send"
                      /\ sent' = <<>>
                      /\ failed_sends' = <<ResetStatusEvent>>
                      /\ pc' = "loop_except"
         ELSE /\ failure' = "storage"
              /\ UNCHANGED metadata
              /\ sent' = <<>>
              /\ failed_sends' = <<>>
              /\ pc' = "loop_except"
    /\ UNCHANGED <<driverVars, ws, frames_left, actions_left, speech_segment,
                   transcript, full_response>>

\* receive_json gives {"action": "ping"}
RecvPing ==
    /\ pc = "recv"
    /\ inbox # <<>>
    /\ ~Head(inbox).has_audio
    /\ Head(inbox).action = "ping"
    /\ inbox' = Tail(inbox)
    /\ IF ws = "open"
       THEN /\ NextMessage
            /\ sent' = <<PongStatusEvent>>
            /\ failed_sends' = <<>>
            /\ pc' = "recv"
       ELSE /\ failure' = "send"
            /\ sent' = <<>>
            /\ failed_sends' = <<PongStatusEvent>>
            /\ pc' = "loop_except"
    /\ UNCHANGED <<vad_segmenter, driverVars, ws, frames_left, actions_left,
                   metadata, conversation_history, is_processing_response,
                   speech_segment, transcript, full_response>>

\* receive_json gives a message with no audio_data and no known action
RecvUnknown ==
    /\ pc = "recv"
    /\ inbox # <<>>
    /\ ~Head(inbox).has_audio
    /\ Head(inbox).action \notin {"reset", "ping"}
    /\ inbox' = Tail(inbox)
    /\ NextMessage
    /\ sent' = <<>>
    /\ failed_sends' = <<>>
    /\ UNCHANGED <<vad_segmenter, driverVars, ws, frames_left, actions_left,
                   pc, metadata, conversation_history,
                   is_processing_response, speech_segment, transcript,
                   full_response>>

\* receive_json raises WebSocketDisconnect; finally: update_metadata
RecvDisconnect ==
    /\ pc = "recv"
    /\ inbox = <<>>
    /\ ws = "broken"
    /\ pc' = "closed"
    /\ \E storage_ok \in BOOLEAN :
         metadata' = IF storage_ok
                     THEN update_metadata(metadata, conversation_history)
                     ELSE metadata
    /\ UNCHANGED <<vad_segmenter, driverVars, peerVars, conversation_history,
                   is_processing_response, speech_segment, transcript,
                   full_response, sent, failure,
                   failed_sends>>

(* ----------------------- process_speech_segment ----------------------- *)
\* leaving process_speech_segment: its locals go away
ReturnToLoop ==
    /\ pc' = "recv"
    /\ speech_segment' = <<>>
    /\ transcript' = <<>>
    /\ full_response' = <<>>

\* if not transcript or len(transcript.strip()) < 3
too_short_never(text) == FALSE
too_short_lenient(text) == text = <<>>
too_short(text) == text = <<>> \/ Len(strip(text)) < 3

\* the guard, the wav file, stt_service.transcribe, the too-short check
Transcribe ==
    /\ pc = "process_speech_segment"
    /\ IF is_processing_response
       THEN ReturnToLoop /\ UNCHANGED failure
       ELSE \/ \E text \in Transcripts :
                 IF too_short(text)
                 THEN ReturnToLoop /\ UNCHANGED failure
                 ELSE /\ transcript' = text
                      /\ pc' = "send_transcription"
                      /\ UNCHANGED <<speech_segment, full_response,
                                     failure>>
            \/ /\ failure' = "transcribe"
               /\ pc' = "segment_except"
               /\ UNCHANGED <<speech_segment, transcript, full_response>>
    /\ UNCHANGED <<vad_segmenter, driverVars, peerVars, metadata,
                   conversation_history, is_processing_response, sent,
                   failed_sends>>

\* send transcription_final, append the user turn, ask should_llm_respond,
\* and set is_processing_response when it says yes
SendTranscription ==
    /\ pc = "send_transcription"
    /\ IF ws = "open"
       THEN LET history == Append(conversation_history,
                                  Turn("user", transcript))
            IN  /\ sent' = Append(sent, TranscriptionFinalEvent(transcript))
                /\ conversation_history' = history
                /\ IF should_llm_respond(transcript, history)
                   THEN /\ is_processing_response' = flag_at_response_start
                        /\ pc' = "send_response_start"
                        /\ UNCHANGED <<speech_segment, transcript,
                                       full_response>>
                   ELSE /\ ReturnToLoop
                        /\ UNCHANGED is_processing_response
                /\ UNCHANGED <<failure, failed_sends>>
       ELSE /\ failure' = "send"
            /\ failed_sends' =
                   Append(failed_sends, TranscriptionFinalEvent(transcript))
            /\ pc' = "segment_except"
            /\ UNCHANGED <<sent, conversation_history,
                           is_processing_response, speech_segment,
                           transcript, full_response>>
    /\ UNCHANGED <<vad_segmenter, driverVars, peerVars, metadata>>

\* an exception inside the inner try: remember what failed
Raise(what) ==
    /\ failure' = what
    /\ pc' = "response_except"

\* send response_start, which is outside the inner try: when the send
\* raises, the finally clause is not run and the outer except takes over
SendResponseStart ==
    /\ pc = "send_response_start"
    /\ IF ws = "open"
       THEN /\ sent' = Append(sent, ResponseStartEvent)
            /\ pc' = "generate"
            /\ UNCHANGED <<failure, failed_sends>>
       ELSE /\ failure' = "send"
            /\ failed_sends' = Append(failed_sends, ResponseStartEvent)
            /\ pc' = "segment_except"
            /\ UNCHANGED sent
    /\ UNCHANGED <<vad_segmenter, driverVars, peerVars, metadata,
                   conversation_history, is_processing_response,
                   speech_segment, transcript, full_response>>

\* the assistant turn appended once the response text is complete
WithAssistantTurn_last_chunk(response_text) ==
    Append(conversation_history,
           Turn("assistant", IF response_text = <<>> THEN <<>>
                             ELSE <<response_text[Len(response_text)]>>))
WithAssistantTurn(response_text) ==
    Append(conversation_history, Turn("assistant", response_text))

\* streaming generator: one more chunk, sent as response_text is_final=False
GenerateChunk ==
    /\ pc = "generate"
    /\ llm_streams
    /\ Len(full_response) < MaxChunks
    /\ LET text_chunk == Chunk(Len(full_response) + 1) IN
         /\ full_response' = full_response \o text_chunk
         /\ IF ws = "open"
            THEN /\ sent' = Append(sent, ResponseTextEvent(text_chunk, FALSE))
                 /\ UNCHANGED <<pc, failure, failed_sends>>
            ELSE /\ Raise("send")
                 /\ failed_sends' = Append(failed_sends,
                        ResponseTextEvent(text_chunk, FALSE))
                 /\ UNCHANGED sent
    /\ UNCHANGED <<vad_segmenter, driverVars, peerVars, metadata,
                   conversation_history, is_processing_response,
                   speech_segment, transcript>>

\* streaming generator: the chunk sequence ends, or the generator raises
GenerateStreamEnd ==
    /\ pc = "generate"
    /\ llm_streams
    /\ \/ /\ conversation_history' = WithAssistantTurn(full_response)
          /\ pc' = "synthesize"
          /\ UNCHANGED failure
       \/ /\ Raise("generate")
          /\ UNCHANGED conversation_history
    /\ UNCHANGED <<vad_segmenter, driverVars, peerVars, metadata,
                   is_processing_response, speech_segment, transcript,
                   full_response, sent, failed_sends>>

\* non-streaming generator: the whole text, sent as one response_text
\* is_final=True, or the generator raises
GenerateWhole ==
    /\ pc = "generate"
    /\ ~llm_streams
    /\ \/ \E response_text \in Responses :
            /\ full_response' = response_text
            /\ IF ws = "open"
               THEN /\ sent' = Append(sent,
                                      ResponseTextEvent(response_text, TRUE))
                    /\ conversation_history' =
                           WithAssistantTurn(response_text)
                    /\ pc' = "synthesize"
                    /\ UNCHANGED <<failure, failed_sends>>
               ELSE /\ Raise("send")
                    /\ failed_sends' = Append(failed_sends,
                           ResponseTextEvent(response_text, TRUE))
                    /\ UNCHANGED <<sent, conversation_history>>
       \/ /\ Raise("generate")
          /\ UNCHANGED <<sent, conversation_history, full_response,
                         failed_sends>>
    /\ UNCHANGED <<vad_segmenter, driverVars, peerVars, metadata,
                   is_processing_response, speech_segment, transcript>>

\* tts_service.generate_to_file and reading the file back
Synthesize ==
    /\ pc = "synthesize"
    /\ \/ pc' = "send_audio" /\ UNCHANGED failure
       \/ Raise("synthesize")
    /\ UNCHANGED <<vad_segmenter, driverVars, peerVars, metadata,
                   conversation_history, is_processing_response,
                   speech_segment, transcript, full_response, sent,
                   failed_sends>>

\* send response_audio
SendResponseAudio ==
    /\ pc = "send_audio"
    /\ IF ws = "open"
       THEN /\ sent' = Append(sent, ResponseAudioEvent)
            /\ pc' = "send_end"
            /\ UNCHANGED <<failure, failed_sends>>
       ELSE /\ Raise("send")
            /\ failed_sends' = Append(failed_sends, ResponseAudioEvent)
            /\ UNCHANGED sent
    /\ UNCHANGED <<vad_segmenter, driverVars, peerVars, metadata,
                   conversation_history, is_processing_response,
                   speech_segment, transcript, full_response>>

\* send response_end, storage.update_metadata, and the finally clause
SendResponseEnd ==
    /\ pc = "send_end"
    /\ IF ws = "open"
       THEN /\ sent' = Append(sent, ResponseEndEvent)
            /\ UNCHANGED failed_sends
            /\ \/ /\ metadata' = update_metadata(metadata,
                                                 conversation_history)
                  /\ is_processing_response' = flag_after_response
                  /\ ReturnToLoop
                  /\ UNCHANGED failure
               \/ /\ Raise("storage")
                  /\ UNCHANGED <<metadata, is_processing_response,
                                 speech_segment, transcript, full_response>>
       ELSE /\ Raise("send")
            /\ failed_sends' = Append(failed_sends, ResponseEndEvent)
            /\ UNCHANGED <<sent, metadata, is_processing_response,
                           speech_segment, transcript, full_response>>
    /\ UNCHANGED <<vad_segmenter, driverVars, peerVars,
                   conversation_history>>

\* inner except: send the error event; finally: clear the flag; a failed
\* send goes on to the outer except
ResponseExcept ==
    /\ pc = "response_except"
    /\ is_processing_response' = flag_after_response
    /\ IF ws = "open"
       THEN /\ sent' = Append(sent, ResponseErrorEvent)
            /\ ReturnToLoop
            /\ UNCHANGED failed_sends
       ELSE /\ pc' = "segment_except"
            /\ failed_sends' = Append(failed_sends, ResponseErrorEvent)
            /\ UNCHANGED <<sent, speech_segment, transcript, full_response>>
    /\ UNCHANGED <<vad_segmenter, driverVars, peerVars, metadata,
                   conversation_history, failure>>

\* outer except of process_speech_segment: send the error event; a failed
\* send leaves process_speech_segment with the exception
SegmentExcept ==
    /\ pc = "segment_except"
    /\ IF ws = "open"
       THEN /\ sent' = Append(sent, SegmentErrorEvent)
            /\ ReturnToLoop
            /\ UNCHANGED failed_sends
       ELSE /\ pc' = "loop_except"
            /\ failed_sends' = Append(failed_sends, SegmentErrorEvent)
            /\ speech_segment' = <<>>
            /\ transcript' = <<>>
            /\ full_response' = <<>>
            /\ UNCHANGED sent
    /\ UNCHANGED <<vad_segmenter, driverVars, peerVars, metadata,
                   conversation_history, is_processing_response, failure>>

\* except clauses of the message loop, then finally: update_metadata.
\* "except Exception" attempts the error event and swallows a failure of
\* that send; when the exception is a failed send, the framework's version
\* decides whether it is a WebSocketDisconnect, which attempts nothing
LoopExcept ==
    /\ pc = "loop_except"
    /\ IF ws = "open"
       THEN /\ sent' = Append(sent, ConnectionErrorEvent)
            /\ UNCHANGED failed_sends
       ELSE /\ UNCHANGED sent
            /\ \/ failed_sends' = Append(failed_sends, ConnectionErrorEvent)
               \/ /\ failed_sends # <<>>
                  /\ UNCHANGED failed_sends
    /\ \E storage_ok \in BOOLEAN :
         metadata' = IF storage_ok
                     THEN update_metadata(metadata, conversation_history)
                     ELSE metadata
    /\ pc' = "closed"
    /\ UNCHANGED <<vad_segmenter, driverVars, peerVars,
                   conversation_history, is_processing_response,
                   speech_segment, transcript, full_response, failure>>

PeerNext == PeerSendAudio \/ PeerSendOther \/ PeerDisconnect

SessionNext ==
    \/ Accept
    \/ RecvAudio
    \/ RecvReset
    \/ RecvPing
    \/ RecvUnknown
    \/ RecvDisconnect
    \/ Transcribe
    \/ SendTranscription
    \/ SendResponseStart
    \/ GenerateChunk
    \/ GenerateStreamEnd
    \/ GenerateWhole
    \/ Synthesize
    \/ SendResponseAudio
    \/ SendResponseEnd
    \/ ResponseExcept
    \/ SegmentExcept
    \/ LoopExcept

Next == PeerNext \/ SessionNext

Spec == Init /\ [][Next]_vars

\* FairSpec: a session with a smaller audio budget, in which the session
\* task always gets to run (every backend call returns or raises)
FairInit ==
    /\ plan = "session"
    /\ calls = <<>>
    /\ session_id = "s1"
    /\ services = "none"
    /\ other = None
    /\ vad_segmenter = VADSegmenter(StreamFrameDurationMs,
                           StreamPaddingDurationMs, StreamMinSpeechDurationMs)
    /\ pc = "accept"
    /\ ws = "open"
    /\ inbox = <<>>
    /\ metadata \in {None, Some([conversation |-> <<>>])}
    /\ llm_streams \in BOOLEAN
    /\ conversation_history = <<>>
    /\ is_processing_response = FALSE
    /\ speech_segment = <<>>
    /\ transcript = <<>>
    /\ full_response = <<>>
    /\ sent = <<>>
    /\ failure = "none"
    /\ failed_sends = <<>>
    /\ frames_left = FairFrames
    /\ actions_left = MaxActions

FairSpec == FairInit /\ [][Next]_vars /\ WF_vars(SessionNext)

(***************************************************************************)
(* GateSpec: a driver that calls should_llm_respond directly               *)
(***************************************************************************)
\* texts, one character per element
W_this ==
    <<"t", "h", "i", "s">>
W_Hello ==
    <<"H", "e", "l", "l", "o">>
W_can ==
    <<"c", "a", "n">>
W_you ==
    <<"y", "o", "u">>
L_ok ==
    <<"o", "k">>
L_HowAreYou ==
    <<"H", "o", "w", " ", "a", "r", "e", " ", "y", "o", "u", "?">>
L_HelloThereEveryone ==
    <<"h", "e", "l", "l", "o", " ", "t", "h", "e", "r", "e", " ", "e", "v", "e", "r", "y", "o", "n", "e">>
L_CanYouHelpMe ==
    <<"c", "a", "n", " ", "y", "o", "u", " ", "h", "e", "l", "p", " ", "m", "e">>
L_FineThanks ==
    <<"f", "i", "n", "e", " ", "t", "h", "a", "n", "k", "s">>
L_DoingGreat ==
    <<"I", " ", "a", "m", " ", "d", "o", "i", "n", "g", " ", "g", "r", "e", "a", "t", " ", "t", "o", "d", "a", "y">>
L_Why ==
    <<"W", "h", "y", "?">>
L_AreYou ==
    <<"A", "r", "e", " ", "y", "o", "u", "?">>
L_Padded ==
    <<" ", " ", "H", "o", "w", " ", "a", "r", "e", " ", "y", "o", "u", "?", " ">>
L_Spaced ==
    <<"f", "i", "n", "e", " ", " ", "t", "h", "a", "n", "k", "s", "\t", "a", " ", "l", "o", "t", " ", "t", "h", "e", "n">>

\* words the transcripts are made of: one that holds a greeting inside
\* another word, a capitalised greeting, the two halves of a prompt phrase
GateWords == { W_this, W_Hello, W_can, W_you }

\* the sentences of at most n words, single spaces between the words
RECURSIVE Sentences(_)
Sentences(n) ==
    IF n = 0 THEN { <<>> }
    ELSE LET shorter == Sentences(n - 1) IN
         shorter \cup { (IF s = <<>> THEN <<>> ELSE s \o <<" ">>) \o w :
                            s \in shorter, w \in GateWords }

\* transcripts named in the documentation of the gate, and variants of
\* their spacing and punctuation
GateLiterals ==
    { L_ok, L_HowAreYou, L_HelloThereEveryone, L_CanYouHelpMe,
      L_FineThanks, L_DoingGreat, L_Why, L_AreYou, L_Padded, L_Spaced }

GateTranscripts ==
    { s \o q : s \in Sentences(MaxWords), q \in { <<>>, <<"?">> } }
        \cup GateLiterals

\* histories the gate can be given
GateHistories ==
    { <<>>, <<Turn("user", L_HowAreYou), Turn("assistant", L_ok)>> }

GateInit ==
    /\ plan = "gate"
    /\ calls = <<>>
    /\ session_id = "s1"
    /\ services = "none"
    /\ other = None
    /\ vad_segmenter = VADSegmenter(StreamFrameDurationMs,
                           StreamPaddingDurationMs, StreamMinSpeechDurationMs)
    /\ pc = "closed"
    /\ ws = "broken"
    /\ inbox = <<>>
    /\ metadata = None
    /\ llm_streams = FALSE
    /\ transcript \in GateTranscripts
    /\ conversation_history = <<>>
    /\ is_processing_response = FALSE
    /\ speech_segment = <<>>
    /\ full_response = <<>>
    /\ sent = <<>>
    /\ failure = "none"
    /\ failed_sends = <<>>
    /\ frames_left = 0
    /\ actions_left = 0

\* one call should_llm_respond(transcript, conversation_history)
GateCall ==
    /\ plan = "gate"
    /\ Len(calls) < MaxGateCalls
    /\ \E history \in GateHistories :
         /\ conversation_history' = history
         /\ calls' = Append(calls,
                [ op |-> "should_llm_respond", transcript |-> transcript,
                  history |-> history,
                  result |-> should_llm_respond(transcript, history) ])
    /\ UNCHANGED <<vad_segmenter, plan, pc, ws, inbox, metadata, llm_streams,
                   is_processing_response, speech_segment, transcript,
                   full_response, sent, failure, failed_sends, frames_left,
                   actions_left, session_id, services, other>>

GateNext == GateCall

GateSpec == GateInit /\ [][GateNext]_vars

(***************************************************************************)
(* PairSpec: two sessions of one process, with different session ids       *)
(***************************************************************************)
\* the locals of the stream_conversation call that is not running, its
\* websocket and its entry of the storage
Parked ==
    [ session_id |-> session_id, vad_segmenter |-> vad_segmenter,
      pc |-> pc, ws |-> ws, inbox |-> inbox, metadata |-> metadata,
      conversation_history |-> conversation_history,
      is_processing_response |-> is_processing_response,
      speech_segment |-> speech_segment, transcript |-> transcript,
      full_response |-> full_response, sent |-> sent, failure |-> failure,
      failed_sends |-> failed_sends, frames_left |-> frames_left,
      actions_left |-> actions_left ]

\* a turn stored by an earlier connection of the second session
StoredTurn == Turn("user", <<"h", "i">>)

PairInit ==
    /\ plan = "pair"
    /\ calls = <<>>
    /\ session_id = "s1"
    /\ services = "none"
    /\ llm_streams \in BOOLEAN
    /\ vad_segmenter = VADSegmenter(StreamFrameDurationMs,
                           StreamPaddingDurationMs, StreamMinSpeechDurationMs)
    /\ pc = "accept"
    /\ ws = "open"
    /\ inbox = <<>>
    /\ metadata = Some([conversation |-> <<>>])
    /\ conversation_history = <<>>
    /\ is_processing_response = FALSE
    /\ speech_segment = <<>>
    /\ transcript = <<>>
    /\ full_response = <<>>
    /\ sent = <<>>
    /\ failure = "none"
    /\ failed_sends = <<>>
    /\ frames_left = PairFrames
    /\ actions_left = 0
    /\ other = Some([ session_id |-> "s2",
                      vad_segmenter |-> VADSegmenter(StreamFrameDurationMs,
                           StreamPaddingDurationMs, StreamMinSpeechDurationMs),
                      pc |-> "accept", ws |-> "open", inbox |-> <<>>,
                      metadata |-> Some([conversation |-> <<StoredTurn>>]),
                      conversation_history |-> <<>>,
                      is_processing_response |-> FALSE,
                      speech_segment |-> <<>>, transcript |-> <<>>,
                      full_response |-> <<>>, sent |-> <<>>,
                      failure |-> "none", failed_sends |-> <<>>,
                      frames_left |-> 0,
                      actions_left |-> PairActions ])

\* the event loop suspends the running stream_conversation at its await
\* and resumes the other one
Switch ==
    /\ other # None
    /\ other' = Some(Parked)
    /\ session_id' = other[1].session_id
    /\ vad_segmenter' = other[1].vad_segmenter
    /\ pc' = other[1].pc
    /\ ws' = other[1].ws
    /\ inbox' = other[1].inbox
    /\ metadata' = other[1].metadata
    /\ conversation_history' = other[1].conversation_history
    /\ is_processing_response' = other[1].is_processing_response
    /\ speech_segment' = other[1].speech_segment
    /\ transcript' = other[1].transcript
    /\ full_response' = other[1].full_response
    /\ sent' = other[1].sent
    /\ failure' = other[1].failure
    /\ failed_sends' = other[1].failed_sends
    /\ frames_left' = other[1].frames_left
    /\ actions_left' = other[1].actions_left
    /\ UNCHANGED <<calls, plan, llm_streams, services>>

PairNext == PeerNext \/ SessionNext \/ Switch

PairSpec == PairInit /\ [][PairNext]_vars

(***************************************************************************)
(* Properties of the session                                               *)
(***************************************************************************)
\* the positions between is_processing_response = True and the finally
\* clause that clears it
CyclePcs ==
    { "send_response_start", "generate", "synthesize", "send_audio",
      "send_end", "response_except" }

CountIn(events, type) ==
    Cardinality({ i \in DOMAIN events : events[i].event = type })

\* the events delivered from the response_start of this message on
StartAt ==
    IF \E i \in DOMAIN sent : sent[i].event = "response_start"
    THEN CHOOSE i \in DOMAIN sent :
             /\ sent[i].event = "response_start"
             /\ \A k \in 1..(i - 1) : sent[k].event # "response_start"
    ELSE 0
Cycle == IF StartAt = 0 THEN <<>> ELSE SubSeq(sent, StartAt, Len(sent))

Rank(e) ==
    CASE e.event = "response_start" -> 0
      [] e.event = "response_text"  -> 1
      [] e.event = "response_audio" -> 2
      [] e.event = "response_end"   -> 3
      [] OTHER                      -> 4

\* C1: at most one response is in flight in a session: the flag is set
\* throughout a response cycle, while it is set the session task takes no
\* further message and starts no transcription or generation for another
\* segment, and no second response_start is sent before the cycle has ended.
C1_SingleFlight ==
    /\ pc \in CyclePcs => is_processing_response
    /\ is_processing_response =>
           pc \notin {"accept", "recv", "process_speech_segment",
                      "send_transcription"}
    /\ CountIn(sent, "response_start") <= 1

\* C1 witness: a response is being generated while further audio of the
\* peer is waiting
C1_Witness ==
    /\ is_processing_response
    /\ pc = "generate"
    /\ inbox # <<>>
    /\ Head(inbox).has_audio

\* C2 as stated: a segment that holds a frame the peer sent while a
\* response was in flight never gets a response.
C2_LateFramesNeverAnswered ==
    pc \in CyclePcs => \A i \in DOMAIN speech_segment : speech_segment[i] = 0

\* C3: the events of a response cycle are response_start, response_text*,
\* response_audio, response_end in that order; after a generation or
\* synthesis failure there is no response_audio and no response_end and the
\* error event is the last one; nothing else is sent inside the cycle and
\* no second cycle starts inside it.
C3_CycleEventOrder ==
    /\ \A i \in DOMAIN Cycle :
           Cycle[i].event \in { "response_start", "response_text",
                                "response_audio", "response_end", "error" }
    /\ \A i, j \in DOMAIN Cycle : i < j => Rank(Cycle[i]) <= Rank(Cycle[j])
    /\ \A type \in {"response_start", "response_audio", "response_end",
                    "error"} : CountIn(Cycle, type) <= 1
    /\ CountIn(Cycle, "response_end") = 1 => CountIn(Cycle, "response_audio") = 1
    /\ \A i \in 1..(StartAt - 1) :
           sent[i].event \notin { "response_text", "response_audio",
                                  "response_end" }
    /\ failure \in {"generate", "synthesize"} =>
           /\ CountIn(Cycle, "response_audio") = 0
           /\ CountIn(Cycle, "response_end") = 0
    /\ (failure \in {"generate", "synthesize"} /\ pc = "recv" /\ ws = "open")
           => Cycle[Len(Cycle)].event = "error"
    /\ (failure = "none" /\ pc = "recv" /\ ws = "open" /\ Cycle # <<>>)
           => /\ Cycle[Len(Cycle)].event = "response_end"
              /\ Cycle[Len(Cycle) - 1].event = "response_audio"

\* C3 witness: a cycle cut short after its text by a synthesis failure
C3_Witness ==
    /\ pc = "recv"
    /\ ws = "open"
    /\ failure = "synthesize"
    /\ Len(Cycle) >= 3
    /\ Cycle[2].event = "response_text"

ResponseTexts == SelectSeq(sent, LAMBDA e : e.event = "response_text")

\* C4 as stated: once response_audio is sent, the text events of the cycle
\* are chunks with is_final=false followed by exactly one is_final=true
\* (streaming), or a single is_final=true (non-streaming).
C4_OneFinalText ==
    CountIn(sent, "response_audio") > 0 =>
        /\ Len(ResponseTexts) >= 1
        /\ ResponseTexts[Len(ResponseTexts)].is_final
        /\ \A i \in 1..(Len(ResponseTexts) - 1) : ~ResponseTexts[i].is_final
        /\ llm_streams => Len(ResponseTexts) >= 2
        /\ ~llm_streams => Len(ResponseTexts) = 1

Errors == SelectSeq(sent, LAMBDA e : e.event = "error")

\* C5: after a generation or synthesis failure, with the channel up, the
\* cycle is left with exactly one error event, recoverable=true, the flag
\* cleared and the session back at its message loop.
C5_FailureIsRecoverable ==
    (failure \in {"generate", "synthesize"} /\ ws = "open"
     /\ pc # "response_except") =>
        /\ pc = "recv"
        /\ ~is_processing_response
        /\ Len(Errors) = 1
        /\ Errors[1].recoverable
        /\ Errors[1] = sent[Len(sent)]

\* C5 witness: a later segment has started a new response after one that
\* failed in generation (its user turn has no assistant turn after it)
C5_Witness ==
    /\ Len(conversation_history) = 2
    /\ conversation_history[1].role = "user"
    /\ should_llm_respond(conversation_history[1].content, <<>>)
    /\ conversation_history[2].role = "user"
    /\ pc = "generate"
    /\ is_processing_response

\* C6 as stated: whenever is_processing_response is true it eventually
\* becomes false again, whatever fails in the cycle (generation, synthesis,
\* storage, or the sending of an event).
C6_FlagEventuallyCleared ==
    is_processing_response ~> ~is_processing_response

(***************************************************************************)
(* Properties of the segmenter, stated on the log of calls                 *)
(***************************************************************************)
NCalls == Len(calls)
IsFrameCall(i) == calls[i].op = "process_frame"

\* the call that opened the utterance call i belongs to: the latest call up
\* to i that passed a speech frame while the segmenter was not speaking
UtteranceStarts(i) ==
    { k \in 1..i : IsFrameCall(k) /\ calls[k].is_speech
                   /\ ~calls[k].was_speaking }
Max(S) == CHOOSE m \in S : \A x \in S : x <= m
UtteranceStart(i) == IF UtteranceStarts(i) = {} THEN 0 ELSE Max(UtteranceStarts(i))

\* the frames passed by calls j..i, concatenated in call order
RECURSIVE PassedBytes(_, _)
PassedBytes(j, i) ==
    IF j > i THEN <<>> ELSE PassedBytes(j, i - 1) \o calls[i].frame
RECURSIVE PassedLength(_, _)
PassedLength(j, i) ==
    IF j > i THEN 0 ELSE PassedLength(j, i - 1) + Len(calls[i].frame)

\* number of consecutive silence frames ending with call i
RECURSIVE SilenceRun(_)
SilenceRun(i) ==
    IF i = 0 \/ ~IsFrameCall(i) \/ calls[i].is_speech THEN 0
    ELSE 1 + SilenceRun(i - 1)

\* the last call passed a silence frame during an utterance and the silence
\* run reached the padding threshold
LastCallCrossesPadding ==
    /\ NCalls > 0
    /\ IsFrameCall(NCalls)
    /\ ~calls[NCalls].is_speech
    /\ calls[NCalls].was_speaking
    /\ SilenceRun(NCalls) >= vad_segmenter.padding_frames

\* buffered duration at the last call: frames since the utterance's start
LastCallDurationMs ==
    (NCalls - UtteranceStart(NCalls) + 1) * vad_segmenter.frame_duration_ms

\* C7: process_frame returns a segment only if the buffered duration
\* (frames buffered times frame_duration_ms) is at least
\* min_speech_duration_ms; a run that crosses the padding threshold with a
\* shorter duration returns no segment and leaves the segmenter with an
\* empty buffer, silence counter 0 and is_speaking = false.
C7_SegmentOnlyIfLongEnough ==
    NCalls > 0 =>
      /\ calls[NCalls].speech_segment # None =>
             /\ UtteranceStart(NCalls) > 0
             /\ LastCallDurationMs >= vad_segmenter.min_speech_duration_ms
      /\ (LastCallCrossesPadding
          /\ LastCallDurationMs < vad_segmenter.min_speech_duration_ms) =>
             /\ calls[NCalls].speech_segment = None
             /\ calls[NCalls].is_speaking = FALSE
             /\ vad_segmenter.speech_frames = <<>>
             /\ vad_segmenter.silence_frames = 0
             /\ vad_segmenter.is_speaking = FALSE

\* C7 witness: an earlier call returned a segment and the last call
\* discarded a run that was too short
C7_Witness ==
    /\ LastCallCrossesPadding
    /\ LastCallDurationMs < vad_segmenter.min_speech_duration_ms
    /\ \E k \in 1..NCalls : calls[k].speech_segment # None

\* C8: a returned segment is the concatenation, in arrival order, of exactly
\* the frames passed since the utterance's first speech frame up to and
\* including the current one; its length is the sum of their lengths.
C8_SegmentIsConcatenation ==
    (NCalls > 0 /\ calls[NCalls].speech_segment # None) =>
        LET j == UtteranceStart(NCalls) IN
        /\ j > 0
        /\ \A k \in j..NCalls : IsFrameCall(k)
        /\ calls[NCalls].speech_segment = Some(PassedBytes(j, NCalls))
        /\ Len(calls[NCalls].speech_segment[1]) = PassedLength(j, NCalls)

\* C8 witness: a segment of frames of different lengths, speech and silence,
\* that does not start with the first call
C8_Witness ==
    /\ NCalls > 0
    /\ calls[NCalls].speech_segment # None
    /\ UtteranceStart(NCalls) > 1
    /\ NCalls - UtteranceStart(NCalls) >= 3
    /\ \E a, b \in UtteranceStart(NCalls)..NCalls :
           Len(calls[a].frame) # Len(calls[b].frame)

\* the log is a run of `lead` speech frames followed by silence frames on a
\* fresh segmenter with the endpoint's configuration
IsLeadRun(lead) ==
    /\ vad_segmenter.frame_duration_ms = StreamFrameDurationMs
    /\ vad_segmenter.padding_duration_ms = StreamPaddingDurationMs
    /\ vad_segmenter.min_speech_duration_ms = StreamMinSpeechDurationMs
    /\ NCalls >= lead
    /\ \A k \in 1..NCalls :
           IsFrameCall(k) /\ (calls[k].is_speech <=> k <= lead)

\* C9: with 30 ms frames, 300 ms padding and 250 ms minimum speech, 10 speech
\* frames followed by silence frames give exactly one segment, returned on
\* the 20th call and on no other, holding all 20 frames.
C9_SegmentOnTwentiethCall ==
    IsLeadRun(10) =>
        /\ \A k \in 1..NCalls : (calls[k].speech_segment # None) <=> (k = 20)
        /\ NCalls >= 20 =>
               calls[20].speech_segment = Some(PassedBytes(1, 20))

\* C9 witness: the run went on past the 20th call
C9_Witness ==
    /\ IsLeadRun(10)
    /\ NCalls >= 22
    /\ calls[20].speech_segment # None

\* C10 as stated: in that run is_speaking is returned true for the first 10
\* calls and false from the 11th call on.
C10_SpeakingFalseFromEleventh ==
    IsLeadRun(10) =>
        \A k \in 1..NCalls : calls[k].is_speaking <=> (k <= 10)

\* C10 amended: in that run is_speaking is returned true for the first 19
\* calls (the 9 silence frames of the hangover included) and false from the
\* 20th call, the one that returns the segment, on.
C10_SpeakingFalseFromTwentieth ==
    IsLeadRun(10) =>
        \A k \in 1..NCalls : calls[k].is_speaking <=> (k <= 19)

\* C10 witness: the run passed the hangover and the call after the segment
C10_Witness ==
    /\ IsLeadRun(10)
    /\ NCalls >= 21
    /\ calls[11].is_speaking
    /\ ~calls[21].is_speaking

\* call k passed a silence frame while an utterance was in progress
IsSilenceInUtterance(k) ==
    IsFrameCall(k) /\ ~calls[k].is_speech /\ calls[k].was_speaking

\* call k ended the utterance in progress (emitted or discarded it)
Finalized(k) == calls[k].was_speaking /\ ~calls[k].is_speaking

\* C11: for every configuration (padding not a multiple of the frame
\* duration included) an utterance in progress is finalized on the first
\* silence frame at which silence_run_count * frame_duration_ms >=
\* padding_duration_ms, and on no earlier frame.
C11_FinalizedAtPaddingDuration ==
    \A k \in 1..NCalls :
        IsSilenceInUtterance(k) =>
            (Finalized(k) <=>
                 SilenceRun(k) * vad_segmenter.frame_duration_ms
                     >= vad_segmenter.padding_duration_ms)

\* what a caller can observe of a segmenter: its configuration and the state
\* process_frame works on (the classifier is the caller's own object)
Observable(seg) ==
    [ frame_duration_ms |-> seg.frame_duration_ms,
      padding_duration_ms |-> seg.padding_duration_ms,
      min_speech_duration_ms |-> seg.min_speech_duration_ms,
      padding_frames |-> seg.padding_frames,
      is_speaking |-> seg.is_speaking,
      speech_frames |-> seg.speech_frames,
      silence_frames |-> seg.silence_frames ]

\* a freshly constructed segmenter with the configuration of the log's one
Fresh ==
    VADSegmenter(vad_segmenter.frame_duration_ms,
                 vad_segmenter.padding_duration_ms,
                 vad_segmenter.min_speech_duration_ms)

\* index of the last reset of the log, 0 if there is none
Resets == { k \in 1..NCalls : calls[k].op = "reset" }
LastReset == IF Resets = {} THEN 0 ELSE Max(Resets)

\* the fresh instance after it was given the frames and verdicts of the
\* calls j..i
RECURSIVE FreshAfter(_, _)
FreshAfter(j, i) ==
    IF i < j THEN Fresh
    ELSE process_frame(FreshAfter(j, i - 1),
                       calls[i].frame, calls[i].is_speech).seg

\* C12: reset is idempotent; after it the segmenter is observably a freshly
\* constructed one (empty buffer, is_speaking false, silence counter 0) and
\* every later process_frame returns what a fresh instance with the same
\* configuration returns for the same frames; the classifier is reset too.
C12_ResetGivesFreshSegmenter ==
    LastReset > 0 =>
        /\ \A i \in (LastReset + 1)..NCalls :
               LET fresh == process_frame(FreshAfter(LastReset + 1, i - 1),
                                          calls[i].frame, calls[i].is_speech)
               IN /\ calls[i].is_speaking = fresh.is_speaking
                  /\ calls[i].speech_segment = fresh.speech_segment
        /\ Observable(vad_segmenter)
               = Observable(FreshAfter(LastReset + 1, NCalls))
        /\ LastReset = NCalls =>
               /\ vad_segmenter.speech_frames = <<>>
               /\ ~vad_segmenter.is_speaking
               /\ vad_segmenter.silence_frames = 0
               /\ vad_segmenter.vad # "used"
               /\ reset(vad_segmenter) = vad_segmenter

\* C12 witness: an utterance in progress was reset twice in a row and the
\* calls after the resets returned a segment
C12_Witness ==
    /\ LastReset > 1
    /\ calls[LastReset - 1].op = "reset"
    /\ calls[LastReset - 1].was_speaking
    /\ calls[NCalls].speech_segment # None

(***************************************************************************)
(* Properties of the session's actions and failure paths                   *)
(***************************************************************************)
\* this step takes message m off the receive queue
Takes(m) == inbox # <<>> /\ Head(inbox) = m /\ inbox' = Tail(inbox)

\* the segmenter is as VADSegmenter(...) leaves it
Pristine(seg) ==
    Observable(seg) = Observable(VADSegmenter(seg.frame_duration_ms,
                          seg.padding_duration_ms, seg.min_speech_duration_ms))

\* C14: a reset is never applied while a response is in flight: at the step
\* that applies it is_processing_response is false and no response cycle
\* is between response_start and its terminal event; after it the history
\* is empty, the segmenter is pristine and is_processing_response is false.
C14_ResetOnlyWhenIdle ==
    [][Takes(ActionMessage("reset")) =>
           /\ ~is_processing_response
           /\ pc \notin CyclePcs
           /\ Cycle # <<>> =>
                  sent[Len(sent)].event \in {"response_end", "error"}
           /\ conversation_history' = <<>>
           /\ Pristine(vad_segmenter')
           /\ ~is_processing_response']_vars

\* C14 witness: a reset was applied in the middle of an utterance, after the
\* frames of an earlier segment
C14_Witness ==
    /\ pc = "recv"
    /\ sent # <<>>
    /\ sent[Len(sent)].note = "Conversation reset"
    /\ conversation_history = <<>>
    /\ Pristine(vad_segmenter)
    /\ vad_segmenter.vad = "fresh"
    /\ frames_left <= MaxFrames - 12

\* C15: a ping produces exactly one status event with message "pong" and
\* changes nothing else: history, segmenter state and
\* is_processing_response are the same after it as before.
C15_PingOnlyAnswersPong ==
    [][Takes(ActionMessage("ping")) =>
           /\ ws = "open" =>
                  /\ Len(sent') = 1
                  /\ sent'[1].event = "status"
                  /\ sent'[1].note = "pong"
                  /\ pc' = pc
           /\ UNCHANGED <<conversation_history, vad_segmenter,
                          is_processing_response, metadata>>]_vars

\* C15 witness: a ping was answered in the middle of an utterance, with a
\* history that is not empty
C15_Witness ==
    /\ pc = "recv"
    /\ sent = <<PongStatusEvent>>
    /\ vad_segmenter.is_speaking
    /\ conversation_history # <<>>

\* C13: when the classifier fails on a frame (a failure to load its model
\* included) process_frame returns normally, the frame counting as
\* non-speech: nothing is propagated and the session is back at its message
\* loop for the next frame.
C13_ClassifierFailureIsSilence ==
    failure = "classifier" => pc = "recv"

\* this step appends a user turn to the history
UserTurnAppended ==
    /\ Len(conversation_history') = Len(conversation_history) + 1
    /\ SubSeq(conversation_history', 1, Len(conversation_history))
           = conversation_history
    /\ conversation_history'[Len(conversation_history')].role = "user"

\* this step enters the response cycle
EntersGenerating == ~is_processing_response /\ is_processing_response'

\* this step delivers transcription_final
TranscriptionFinalSent ==
    /\ Len(sent') = Len(sent) + 1
    /\ sent'[Len(sent')].event = "transcription_final"

\* C17 as stated: a user turn is appended exactly when the pipeline enters
\* GENERATING for the segment; a transcribed segment the gate declines
\* leaves the history unchanged.
C17_UserTurnOnlyWhenGenerating ==
    [][UserTurnAppended <=> EntersGenerating]_vars

\* C17 amended: a user turn is appended exactly at the step that delivers
\* transcription_final, for every transcript of at least 3 characters after
\* trimming and before the gate is consulted; the turn holds that
\* transcript, and the response cycle is entered at that step exactly when
\* should_llm_respond says so.
C17_UserTurnWithTranscriptionFinal ==
    [][/\ UserTurnAppended <=> TranscriptionFinalSent
       /\ UserTurnAppended =>
              LET turn == conversation_history'[Len(conversation_history')]
              IN  /\ turn.content = sent'[Len(sent')].text
                  /\ Len(strip(turn.content)) >= 3
                  /\ EntersGenerating <=>
                         should_llm_respond(turn.content,
                                            conversation_history')]_vars

\* C17 witness: a segment transcribed as "fine thanks" was declined by the
\* gate and the session is back at its loop with the user turn in the history
C17_Witness ==
    /\ pc = "recv"
    /\ ~is_processing_response
    /\ Len(sent) = 2
    /\ sent[2].event = "transcription_final"
    /\ ~should_llm_respond(sent[2].text, conversation_history)
    /\ conversation_history # <<>>
    /\ conversation_history[Len(conversation_history)]
           = Turn("user", sent[2].text)

\* C18: when transcription of a finalized segment fails the segment is
\* dropped: exactly one error event, recoverable=true, is sent, no
\* transcription_final and no response_start, history and
\* is_processing_response are unchanged and the session is back at its
\* message loop.
C18_TranscriptionFailureIsRecoverable ==
    [][/\ (failure # "transcribe" /\ failure' = "transcribe") =>
              UNCHANGED <<conversation_history, is_processing_response, sent>>
       /\ (failure = "transcribe" /\ pc = "segment_except" /\ pc' # pc
           /\ ws = "open") =>
              /\ Len(sent') = Len(sent) + 1
              /\ SubSeq(sent', 1, Len(sent)) = sent
              /\ CountIn(sent', "error") = 1
              /\ sent'[Len(sent')].event = "error"
              /\ sent'[Len(sent')].recoverable
              /\ CountIn(sent', "transcription_final") = 0
              /\ CountIn(sent', "response_start") = 0
              /\ pc' = "recv"
              /\ UNCHANGED <<conversation_history, is_processing_response,
                             vad_segmenter>>]_vars

\* C18 witness: the second segment of a session failed to transcribe and the
\* session is back at its loop, the history of the first cycle in place
C18_Witness ==
    /\ failure = "transcribe"
    /\ pc = "recv"
    /\ ws = "open"
    /\ Len(Errors) = 1
    /\ Len(conversation_history) >= 2

\* the events whose send was attempted for the current message
Attempted == sent \o failed_sends

\* C19: when the event channel fails, the only error event attempted carries
\* recoverable=false, the message loop stops and no further inbound message
\* is processed.
C19_ChannelFailureIsFatal ==
    failed_sends # <<>> =>
        /\ \A i \in DOMAIN Attempted :
               Attempted[i].event = "error" => ~Attempted[i].recoverable
        /\ pc \in {"response_except", "segment_except", "loop_except",
                   "closed"}

\* C20: a message whose audio_data cannot be base64-decoded does not end the
\* session: the session is back at its message loop and later frames and
\* actions are processed.
C20_MalformedMessageKeepsSession ==
    failure = "decode" => pc = "recv"

(***************************************************************************)
(* Properties of the turn-taking gate                                      *)
(***************************************************************************)
\* number of words: maximal runs of characters that are not whitespace
WordCount(t) ==
    Cardinality({ i \in 1..Len(t) :
                    ~IsSpace(t[i]) /\ (i = 1 \/ IsSpace(t[i - 1])) })

\* the last character that is not whitespace is a question mark
EndsWithQuestionMark(t) ==
    \E i \in 1..Len(t) :
        t[i] = "?" /\ \A k \in (i + 1)..Len(t) : IsSpace(t[k])

\* the phrase occurs in t, letter case ignored
ContainsPhrase(t, phrase) ==
    \E i \in 1..(Len(t) - Len(phrase) + 1) :
        \A k \in 1..Len(phrase) : lower_char(t[i + k - 1]) = phrase[k]

\* the rule list, first match wins
RuleList(t) ==
    CASE WordCount(t) < 3 -> FALSE
      [] WordCount(t) >= 3 /\ EndsWithQuestionMark(t) -> TRUE
      [] WordCount(t) >= 3 /\ ~EndsWithQuestionMark(t)
             /\ (\E g \in starters : ContainsPhrase(t, g)) -> TRUE
      [] WordCount(t) >= 3 /\ ~EndsWithQuestionMark(t)
             /\ ~(\E g \in starters : ContainsPhrase(t, g))
             /\ (\E q \in prompts : ContainsPhrase(t, q)) -> TRUE
      [] OTHER -> WordCount(t) >= 5

SpeechStartSent ==
    /\ inbox # <<>>
    /\ inbox' = Tail(inbox)
    /\ sent' # <<>>
    /\ sent'[Len(sent')].event = "speech_start"

\* C22: speech_start is signalled once per utterance, on the frame that
\* moves the segmenter from not-in-speech to in-speech, and for no later
\* frame of the same utterance.
C22_SpeechStartOncePerUtterance ==
    [][SpeechStartSent =>
           ~vad_segmenter.is_speaking /\ vad_segmenter'.is_speaking]_vars

\* C23: a response cycle opened by response_start is closed by one terminal
\* event, response_end or error, never both: no error event follows the
\* cycle's response_end (also when persisting the history fails).
C23_OneTerminalEvent ==
    CountIn(Cycle, "response_end") + CountIn(Cycle, "error") <= 1

\* the last turn of the history, None if it is empty
LastTurn ==
    IF conversation_history = <<>> THEN None
    ELSE Some(conversation_history[Len(conversation_history)])

\* C24: after a response cycle that ended with an error event and no
\* response_end, the history holds no assistant turn for that cycle: its
\* last turn is the user turn the cycle answered.
C24_NoAssistantTurnAfterError ==
    (Cycle # <<>> /\ CountIn(Cycle, "error") > 0
     /\ CountIn(Cycle, "response_end") = 0) =>
        (LastTurn # None /\ LastTurn[1].role = "user")

\* the texts of the response_text events of the cycle, concatenated in the
\* order they were sent
RECURSIVE TextOf(_)
TextOf(events) ==
    IF events = <<>> THEN <<>>
    ELSE (IF Head(events).event = "response_text" THEN Head(events).text
          ELSE <<>>) \o TextOf(Tail(events))
ChunksSent == TextOf(Cycle)

\* C25: in streaming mode the assistant turn appended to the history and
\* the text handed to synthesis both equal the in-order concatenation of
\* the response_text chunks sent in the cycle; synthesis starts only after
\* the chunk sequence has ended; the generator is given the history whose
\* last element is the current user turn.
C25_StreamedTextIsWhole ==
    /\ (llm_streams /\ pc \in {"synthesize", "send_audio", "send_end"}) =>
           /\ full_response = ChunksSent
           /\ LastTurn = Some(Turn("assistant", ChunksSent))
    /\ pc = "generate" => LastTurn = Some(Turn("user", transcript))

\* C25 witness: a streamed response of two chunks reached the end of its
\* cycle
C25_Witness ==
    /\ llm_streams
    /\ pc = "send_end"
    /\ CountIn(Cycle, "response_text") = 2
    /\ Len(ChunksSent) = 2

\* C26: a segment whose transcript is empty or shorter than 3 characters
\* after trimming is dropped silently: the session goes from transcription
\* straight back to its loop with nothing sent after speech_end and history
\* and is_processing_response unchanged, and no transcription_final ever
\* carries such a text.
C26_ShortTranscriptDropped ==
    [][/\ (pc = "process_speech_segment" /\ pc' = "recv") =>
              /\ sent = <<SpeechEndEvent>>
              /\ UNCHANGED <<sent, conversation_history,
                             is_processing_response>>
       /\ TranscriptionFinalSent =>
              Len(strip(sent'[Len(sent')].text)) >= 3]_vars

\* C26 witness: the second segment of a session was dropped, the history of
\* the first one in place
C26_Witness ==
    /\ pc = "recv"
    /\ ws = "open"
    /\ failure = "none"
    /\ sent = <<SpeechEndEvent>>
    /\ conversation_history # <<>>

\* C30: is_processing_response is false wherever the loop takes the next
\* message and wherever process_speech_segment is entered: no message is
\* read between a response_start and the cycle's terminal event, and the
\* "already processing" branch is never taken.
C30_LoopReadsOnlyWhenIdle ==
    /\ pc \in {"recv", "process_speech_segment"} => ~is_processing_response
    /\ (pc = "recv" /\ Cycle # <<>>) =>
           sent[Len(sent)].event \in {"response_end", "error"}

\* C30 witness: a response cycle is over and the loop is about to take a
\* frame that the peer sent while the response was in flight
C30_Witness ==
    /\ pc = "recv"
    /\ Cycle # <<>>
    /\ ~is_processing_response
    /\ inbox # <<>>
    /\ Head(inbox) = AudioMessage(Some(<<1>>))

\* C27: a client that connects with a session id that has no stored
\* metadata gets a session created for it and streaming proceeds with an
\* empty history: when the services are available, the connection enters
\* the message loop instead of being closed.
C27_UnknownSessionIsCreated ==
    [][(pc = "accept" /\ pc' # "accept" /\ metadata = None
        /\ failure' # "services") =>
           (pc' = "recv" /\ conversation_history' = <<>>)]_vars

(***************************************************************************)
(* Properties of the segmenter's state                                     *)
(***************************************************************************)
\* the frames passed by the calls j..i, one element per call
PassedFrames(j, i) == [k \in 1..(i - j + 1) |-> calls[j + k - 1].frame]

\* C28: after every call of process_frame or reset: is_speaking = false
\* implies an empty buffer and silence counter 0; is_speaking = true
\* implies a non-empty buffer whose first frame was classified speech, a
\* silence counter equal to the number of trailing silence frames of the
\* buffer and, when padding_frames >= 1, smaller than padding_frames.  A
\* silence frame received while not speaking changes nothing and returns
\* (false, none).
C28_SegmenterStateInvariant ==
    /\ ~vad_segmenter.is_speaking =>
           /\ vad_segmenter.speech_frames = <<>>
           /\ vad_segmenter.silence_frames = 0
    /\ vad_segmenter.is_speaking =>
           /\ vad_segmenter.speech_frames # <<>>
           /\ UtteranceStart(NCalls) > 0
           /\ calls[UtteranceStart(NCalls)].is_speech
           /\ vad_segmenter.speech_frames =
                  PassedFrames(UtteranceStart(NCalls), NCalls)
           /\ vad_segmenter.silence_frames = SilenceRun(NCalls)
           /\ vad_segmenter.padding_frames >= 1 =>
                  vad_segmenter.silence_frames < vad_segmenter.padding_frames
    /\ (NCalls > 0 /\ IsFrameCall(NCalls) /\ ~calls[NCalls].is_speech
        /\ ~calls[NCalls].was_speaking) =>
           /\ ~calls[NCalls].is_speaking
           /\ calls[NCalls].speech_segment = None
           /\ Observable(vad_segmenter) = Observable(Fresh)

\* C28 witness: a second utterance, begun after the first one was
\* finalized and a silence frame was ignored, has one trailing silence frame
C28_Witness ==
    /\ vad_segmenter.is_speaking
    /\ vad_segmenter.silence_frames = 1
    /\ Len(vad_segmenter.speech_frames) = 2
    /\ \E k \in 1..NCalls : Finalized(k)
    /\ \E k \in 1..NCalls :
           IsFrameCall(k) /\ ~calls[k].is_speech /\ ~calls[k].was_speaking

\* the shortest buffer that can cross the padding threshold, one speech
\* frame and padding_frames silence frames, is already long enough
NeverDiscards ==
    (vad_segmenter.padding_frames + 1) * vad_segmenter.frame_duration_ms
        >= vad_segmenter.min_speech_duration_ms

\* C29: under the stream endpoint's configuration (30 ms, 300 ms, 250 ms)
\* the too-short discard branch is unreachable: an utterance of at least one
\* speech frame is emitted as a segment on the 10th consecutive silence
\* frame after it; in general no run is discarded when
\* (padding_frames + 1) * frame_duration_ms >= min_speech_duration_ms.
C29_NoDiscardWhenPaddingCovers ==
    /\ Observable(Fresh) = Observable(VADSegmenter(StreamFrameDurationMs,
                               StreamPaddingDurationMs,
                               StreamMinSpeechDurationMs)) => NeverDiscards
    /\ NeverDiscards =>
           \A k \in 1..NCalls :
               (IsSilenceInUtterance(k) /\ Finalized(k)) =>
                   calls[k].speech_segment # None
    /\ \A lead \in 1..MaxLead :
           IsLeadRun(lead) =>
               \A k \in 1..NCalls :
                   calls[k].speech_segment # None <=> k = lead + 10

\* C29 witness: one speech frame and ten silence frames under the stream
\* endpoint's configuration gave a segment on the eleventh call
C29_Witness ==
    /\ IsLeadRun(1)
    /\ NCalls = 11
    /\ calls[11].speech_segment = Some(PassedBytes(1, 11))

(***************************************************************************)
(* Properties of two concurrent sessions                                   *)
(***************************************************************************)
\* every event delivered or attempted on a session's websocket carries that
\* session's id
EventsOf(r) ==
    /\ \A i \in DOMAIN r.sent : r.sent[i].session_id = r.session_id
    /\ \A i \in DOMAIN r.failed_sends :
           r.failed_sends[i].session_id = r.session_id
OwnEvents == EventsOf(Parked) /\ (other # None => EventsOf(other[1]))

====
